---- MODULE Spec2Model ----
(***************************************************************************)
(* Model of the RGSS script bundle codec of rgss-script-editor:            *)
(* extraction, loader bundle generation, bundle building, name formatting  *)
(* and section generation (modules/processes/scripts_controller).          *)
(*                                                                         *)
(* Text is a sequence of UTF-16 code units (numbers), file contents are    *)
(* sequences of bytes (numbers 0..255).                                    *)
(***************************************************************************)
EXTENDS Integers, Sequences, FiniteSets, TLC

VARIABLES
  bundleFile, \* the bundle file: [exists, data]
  backups,  \* the backups folder: [exists, files], files maps a file name to its bytes
  scripts,  \* the scripts folder: [exists, nodes], nodes maps a relative path to [dir, data]
  clock,    \* the wall clock: seconds since midnight of the current day
  ops,      \* number of operations run so far
  last,     \* the last operation: [op, threw, code, log, pre]
  original, \* the bundle file before its first overwrite by the loader bundle: [known, data]
  fmt,      \* harness of the name formatter: [pc, name, index, file, back]
  codec,    \* harness of the bundle codec: [pc, entries, bytes, out]
  gen,      \* a call of generateScriptSection: [pc, sections, section, again]
  loader    \* a run of the generated loader script: [pc, root, cache, stale, loaded, raised]

vars == <<bundleFile, backups, scripts, clock, ops, last, original, fmt, codec, gen, loader>>

(***************************************************************************)
(* Bounds                                                                  *)
(***************************************************************************)
MaxNameLen == 3
\* Operations per run.
MaxOps == 2
\* Seconds the clock advances per run.
MaxTicks == 1
\* Entries of a bundle given to the codec harness.
MaxCodecEntries == 2
\* Math.random() is drawn from the multiples of 1/RandomResolution in [0, 1).
RandomResolution == 2
\* Lines of the load order file the loader reads.
MaxLines == 3

(***************************************************************************)
(* Characters                                                              *)
(***************************************************************************)
\* Code units used by the model, by name.
Ch ==
  [nl |-> 10, sp |-> 32, hash |-> 35, dash |-> 45, dot |-> 46, slash |-> 47,
   zero |-> 48, one |-> 49, colon |-> 58, B |-> 66, b |-> 98, r |-> 114,
   backslash |-> 92, tri |-> 9660, bom |-> 65279]

\* '.rb'
RB_EXT == <<46, 114, 98>>

\* ECMAScript WhiteSpace and LineTerminator code units: what String.trim strips
\* and what the regexp class \s matches.
IsWhiteSpace(c) == c \in {9, 10, 11, 12, 13, 32, 160, 5760, 8232, 8233, 8239, 8287, 12288, 65279} \cup (8192..8202)

\* The regexp class \d.
IsDigit(c) == c \in 48..57

\* What the regexp '.' matches: anything but a line terminator.
IsDotChar(c) == c \notin {10, 13, 8232, 8233}

\* Simple case folding of the letters the model uses (regexp flag i).
ToLower(c) == IF c \in 65..90 THEN c + 32 ELSE c

\* INVALID_CHARACTERS = /[\\/:\*\?"<>\|▼■]/g
INVALID_CHARACTERS == {92, 47, 58, 42, 63, 34, 60, 62, 124, 9660, 9632}

(***************************************************************************)
(* String helpers (String.prototype)                                       *)
(***************************************************************************)
RECURSIVE toString(_)
\* Number.prototype.toString of a non-negative integer.
toString(n) == IF n < 10 THEN <<48 + n>> ELSE toString(n \div 10) \o <<48 + (n % 10)>>

\* String.prototype.padStart(len, c)
padStart(s, len, c) == IF Len(s) >= len THEN s ELSE [i \in 1..(len - Len(s)) |-> c] \o s

\* String.prototype.includes(sub)
includes(s, sub) == \E i \in 0..(Len(s) - Len(sub)) : SubSeq(s, i + 1, i + Len(sub)) = sub

\* String.prototype.trim()
trim(s) ==
  LET keep == {i \in 1..Len(s) : ~IsWhiteSpace(s[i])}
  IN  IF keep = {} THEN <<>>
      ELSE SubSeq(s, CHOOSE i \in keep : \A j \in keep : i <= j,
                     CHOOSE i \in keep : \A j \in keep : i >= j)

\* scriptName.replace(INVALID_CHARACTERS, '')
removeInvalid(s) == SelectSeq(s, LAMBDA c : c \notin INVALID_CHARACTERS)

\* The sequences over S of length at most n.
RECURSIVE SeqsUpTo(_, _)
SeqsUpTo(S, n) ==
  IF n = 0 THEN {<<>>}
  ELSE LET shorter == SeqsUpTo(S, n - 1)
       IN  shorter \cup {Append(s, c) : s \in {t \in shorter : Len(t) = n - 1}, c \in S}

(***************************************************************************)
(* Name formatter                                                          *)
(***************************************************************************)
formatScriptName(scriptName, scriptIndex) ==
  LET index == toString(scriptIndex)
      name  == padStart(index, 4, 48) \o <<32, 45, 32>> \o trim(removeInvalid(scriptName))
  IN  IF ~includes(name, RB_EXT) THEN name \o RB_EXT ELSE name

\* pathResolve.basename: the part of the path after its last separator.
basename(p) ==
  LET seps == {i \in 1..Len(p) : p[i] \in {47, 92}}
  IN  IF seps = {} THEN p
      ELSE SubSeq(p, (CHOOSE i \in seps : \A j \in seps : i >= j) + 1, Len(p))

\* DEFORMAT_SCRIPT_NAME = /(?:\d+\s*-.*?)?(.*?)\.rb$/i  applied with String.match:
\* the leftmost start offset at which the pattern matches; at one offset the
\* optional group is tried before its omission (greedy ?), and the lazy .*?
\* of the group takes the fewest characters. Returns the capture (.*?) as
\* <<found, text>>.
deformatMatch(s) ==
  LET n == Len(s)
      e == n - 3                         \* the capture ends where '.rb' begins
      tail == n >= 3 /\ [i \in 1..3 |-> ToLower(s[e + i])] = RB_EXT
      \* every character of s[p+1..e] is matched by '.'
      dots(p) == \A i \in (p + 1)..e : IsDotChar(s[i])
      \* from offset p: the longest run of characters satisfying the class
      digitsEnd(p) == CHOOSE q \in p..n : (\A i \in (p + 1)..q : IsDigit(s[i]))
                                          /\ (q = n \/ ~IsDigit(s[q + 1]))
      spaceEnd(p) == CHOOSE q \in p..n : (\A i \in (p + 1)..q : IsWhiteSpace(s[i]))
                                         /\ (q = n \/ ~IsWhiteSpace(s[q + 1]))
      \* offset after '\d+\s*-' started at p, or -1
      groupEnd(p) ==
        LET d == digitsEnd(p)
            w == spaceEnd(d)
        IN  IF d > p /\ w < n /\ s[w + 1] = 45 THEN w + 1 ELSE -1
      \* offset where the capture starts when the match starts at p, or -1
      capStart(p) ==
        LET g == groupEnd(p)
        IN  IF g >= 0 /\ g <= e /\ dots(g) THEN g
            ELSE IF p <= e /\ dots(p) THEN p
            ELSE -1
      starts == {p \in 0..n : tail /\ capStart(p) >= 0}
  IN  IF starts = {} THEN <<FALSE, <<>>>>
      ELSE LET p0 == CHOOSE p \in starts : \A q \in starts : p <= q
           IN  <<TRUE, SubSeq(s, capStart(p0) + 1, e)>>

deformatScriptName(script) ==
  LET baseName == basename(script)
      match == deformatMatch(baseName)
  IN  IF match[1] THEN match[2] ELSE baseName

(***************************************************************************)
(* Text encoding: UTF-8 of code units of the basic multilingual plane      *)
(***************************************************************************)
RECURSIVE utf8Encode(_)
\* The UTF-8 bytes of a string (what zlib.deflateSync and marshal.dump do
\* with a JavaScript string).
utf8Encode(s) ==
  IF s = <<>> THEN <<>>
  ELSE LET c == Head(s)
           bytes == IF c < 128 THEN <<c>>
                    ELSE IF c < 2048 THEN <<192 + (c \div 64), 128 + (c % 64)>>
                    ELSE <<224 + (c \div 4096), 128 + ((c \div 64) % 64), 128 + (c % 64)>>
       IN  bytes \o utf8Encode(Tail(s))

RECURSIVE utf8Decode(_)
\* Buffer.toString('utf8'): decodes UTF-8, an ill-formed byte gives U+FFFD.
utf8Decode(bytes) ==
  IF bytes = <<>> THEN <<>>
  ELSE LET b == Head(bytes)
           cont(i) == Len(bytes) >= i /\ bytes[i] \in 128..191
       IN  IF b < 128 THEN <<b>> \o utf8Decode(Tail(bytes))
           ELSE IF b \in 194..223 /\ cont(2)
             THEN <<(b - 192) * 64 + (bytes[2] - 128)>> \o utf8Decode(SubSeq(bytes, 3, Len(bytes)))
           ELSE IF b \in 224..239 /\ cont(2) /\ cont(3)
             THEN <<(b - 224) * 4096 + (bytes[2] - 128) * 64 + (bytes[3] - 128)>>
                  \o utf8Decode(SubSeq(bytes, 4, Len(bytes)))
           ELSE <<65533>> \o utf8Decode(Tail(bytes))

\* new TextDecoder('utf8').decode(bytes): ignoreBOM is false by default, so a
\* leading byte order mark U+FEFF is dropped from the decoded text.
textDecoderDecode(bytes) ==
  LET text == utf8Decode(bytes)
  IN  IF text # <<>> /\ Head(text) = 65279 THEN Tail(text) ELSE text

(***************************************************************************)
(* Compression: a zlib stream (RFC 1950) holding one stored block          *)
(***************************************************************************)
RECURSIVE adlerSums(_, _, _)
\* The two running sums <<a, b>> of Adler-32 over the bytes.
adlerSums(bytes, a, b) ==
  IF bytes = <<>> THEN <<a, b>>
  ELSE LET a2 == (a + Head(bytes)) % 65521
       IN  adlerSums(Tail(bytes), a2, (b + a2) % 65521)

adler32(bytes) ==
  LET ab == adlerSums(bytes, 1, 0)
  IN  <<ab[2] \div 256, ab[2] % 256, ab[1] \div 256, ab[1] % 256>>

\* zlib.deflateSync(data, {level: Z_BEST_COMPRESSION, finishFlush: Z_FINISH}):
\* one complete zlib stream. A string is compressed as its UTF-8 bytes.
deflateBytes(data) ==
  LET n == Len(data)
  IN  <<120, 218, 1, n % 256, n \div 256, 255 - (n % 256), 255 - (n \div 256)>>
      \o data \o adler32(data)

deflateSync(text) == deflateBytes(utf8Encode(text))

\* zlib.inflateSync(bytes): <<ok, data>>; ok is FALSE where inflateSync throws.
inflateSync(bytes) ==
  LET n == Len(bytes)
      len == bytes[4] + 256 * bytes[5]
      data == SubSeq(bytes, 8, 7 + len)
      ok == /\ n >= 11
            /\ bytes[1] = 120 /\ bytes[2] = 218 /\ bytes[3] = 1
            /\ bytes[6] = 255 - bytes[4] /\ bytes[7] = 255 - bytes[5]
            /\ n = len + 11
            /\ SubSeq(bytes, n - 3, n) = adler32(data)
  IN  IF ok THEN <<TRUE, data>> ELSE <<FALSE, <<>>>>

(***************************************************************************)
(* Ruby Marshal 4.8, as written by marshal.dump and read by marshal.load   *)
(***************************************************************************)
\* w_long: a non-negative Fixnum.
marshalLong(n) ==
  IF n = 0 THEN <<0>>
  ELSE IF n < 123 THEN <<n + 5>>
  ELSE IF n < 256 THEN <<1, n>>
  ELSE IF n < 65536 THEN <<2, n % 256, n \div 256>>
  ELSE IF n < 16777216 THEN <<3, n % 256, (n \div 256) % 256, n \div 65536>>
  ELSE <<4, n % 256, (n \div 256) % 256, (n \div 65536) % 256, n \div 16777216>>

\* r_long at offset p (bytes[p+1] is the next byte): <<value, next offset>>,
\* <<-1, p>> when the bytes hold no non-negative Fixnum there.
unmarshalLong(bytes, p) ==
  LET n == Len(bytes)
      c == bytes[p + 1]
  IN  IF p >= n THEN <<-1, p>>
      ELSE IF c = 0 THEN <<0, p + 1>>
      ELSE IF c \in 6..127 THEN <<c - 5, p + 1>>
      ELSE IF c \in 1..4 /\ p + 1 + c <= n
        THEN <<bytes[p + 2]
               + (IF c >= 2 THEN 256 * bytes[p + 3] ELSE 0)
               + (IF c >= 3 THEN 65536 * bytes[p + 4] ELSE 0)
               + (IF c >= 4 THEN 16777216 * bytes[p + 5] ELSE 0), p + 1 + c>>
      ELSE <<-1, p>>

\* A JavaScript string: 'I' '"' bytes, one instance variable :E => true. The
\* symbol E is written in full the first time and as a symbol link later.
marshalString(text, first) ==
  LET bytes == utf8Encode(text)
  IN  <<73, 34>> \o marshalLong(Len(bytes)) \o bytes \o marshalLong(1)
      \o (IF first THEN <<58>> \o marshalLong(1) \o <<69>> ELSE <<59>> \o marshalLong(0))
      \o <<84>>

\* A Buffer: a plain string '"' bytes.
marshalBinary(bytes) == <<34>> \o marshalLong(Len(bytes)) \o bytes

RECURSIVE marshalEntries(_, _)
marshalEntries(bundle, first) ==
  IF bundle = <<>> THEN <<>>
  ELSE LET e == Head(bundle)
       IN  <<91>> \o marshalLong(3)
           \o <<105>> \o marshalLong(e[1])
           \o marshalString(e[2], first)
           \o marshalBinary(e[3])
           \o marshalEntries(Tail(bundle), FALSE)

\* marshal.dump(bundle, {hashStringKeysToSymbol: true}) of an array of
\* [section, name, compressed code].
marshalDump(bundle) ==
  <<4, 8, 91>> \o marshalLong(Len(bundle)) \o marshalEntries(bundle, TRUE)

\* The bytes of a string whose type byte '"' is at offset q and whose length
\* is len (the result of unmarshalLong at q + 1): <<ok, bytes, next offset>>.
unmarshalBytes(bytes, q, len) ==
  IF q < Len(bytes) /\ bytes[q + 1] = 34 /\ len[1] >= 0 /\ len[2] + len[1] <= Len(bytes)
    THEN <<TRUE, SubSeq(bytes, len[2] + 1, len[2] + len[1]), len[2] + len[1]>>
  ELSE <<FALSE, <<>>, q>>

\* The instance variables of a string, from offset q: one variable, the symbol
\* :E (58 6 69) or its link ;0 (59 0), and a boolean. Gives the offset after
\* them, -1 when the bytes hold something else.
unmarshalIvars(bytes, q) ==
  IF q + 5 <= Len(bytes) /\ SubSeq(bytes, q + 1, q + 4) = <<6, 58, 6, 69>>
     /\ bytes[q + 5] \in {84, 70} THEN q + 5
  ELSE IF q + 4 <= Len(bytes) /\ SubSeq(bytes, q + 1, q + 3) = <<6, 59, 0>>
     /\ bytes[q + 4] \in {84, 70} THEN q + 4
  ELSE -1

\* The instance variables that follow the string str are read and dropped.
unmarshalIvarString(bytes, str) ==
  IF str[1] /\ unmarshalIvars(bytes, str[3]) >= 0
    THEN <<TRUE, str[2], unmarshalIvars(bytes, str[3])>>
  ELSE <<FALSE, <<>>, 0>>

\* A string at offset p, read with {string: 'binary'}: <<ok, bytes, next offset>>.
unmarshalString(bytes, p) ==
  IF p < Len(bytes) /\ bytes[p + 1] = 73
    THEN unmarshalIvarString(bytes, unmarshalBytes(bytes, p + 1, unmarshalLong(bytes, p + 2)))
  ELSE unmarshalBytes(bytes, p, unmarshalLong(bytes, p + 1))

RECURSIVE unmarshalEntries(_, _, _)

\* An entry whose parts are read, and the entries after it.
unmarshalEntryRest(section, name, code, rest) ==
  <<rest[1], <<<<section[1], name[2], code[2]>>>> \o rest[2], rest[3]>>

\* An entry at offset p, k entries left: the array '[' of 3 items with a
\* Fixnum 'i' first, then two strings.
unmarshalEntryCode(bytes, p, k, arity, section, name, code) ==
  IF /\ p < Len(bytes) /\ bytes[p + 1] = 91 /\ arity[1] = 3
     /\ arity[2] < Len(bytes) /\ bytes[arity[2] + 1] = 105 /\ section[1] >= 0
     /\ name[1] /\ code[1]
    THEN unmarshalEntryRest(section, name, code, unmarshalEntries(bytes, code[3], k - 1))
  ELSE <<FALSE, <<>>, p>>

unmarshalEntryName(bytes, p, k, arity, section, name) ==
  unmarshalEntryCode(bytes, p, k, arity, section, name, unmarshalString(bytes, name[3]))

unmarshalEntrySection(bytes, p, k, arity, section) ==
  unmarshalEntryName(bytes, p, k, arity, section, unmarshalString(bytes, section[2]))

unmarshalEntryArity(bytes, p, k, arity) ==
  unmarshalEntrySection(bytes, p, k, arity, unmarshalLong(bytes, arity[2] + 1))

\* k arrays [Fixnum, string, string] from offset p: <<ok, entries, next offset>>.
unmarshalEntries(bytes, p, k) ==
  IF k = 0 THEN <<TRUE, <<>>, p>>
  ELSE unmarshalEntryArity(bytes, p, k, unmarshalLong(bytes, p + 1))

\* The array of count entries that follows the header.
unmarshalArray(bytes, count, entries) ==
  IF /\ Len(bytes) >= 4 /\ SubSeq(bytes, 1, 3) = <<4, 8, 91>> /\ count[1] >= 0
     /\ entries[1] /\ entries[3] = Len(bytes)
    THEN <<TRUE, entries[2]>>
  ELSE <<FALSE, <<>>>>

unmarshalCount(bytes, count) ==
  unmarshalArray(bytes, count,
                 IF count[1] >= 0 THEN unmarshalEntries(bytes, count[2], count[1])
                 ELSE <<FALSE, <<>>, 0>>)

\* marshal.load(bytes, {string: 'binary'}): <<ok, array>>; ok is FALSE where
\* the bytes are no dump of an array of [Fixnum, string, string].
marshalLoad(bytes) == unmarshalCount(bytes, unmarshalLong(bytes, 3))

(***************************************************************************)
(* Bundle codec                                                            *)
(***************************************************************************)
RECURSIVE decodeEntries(_)
\* The loop of readBundleFile: <<ok, bundle>> of [section, name, code].
decodeEntries(raw) ==
  IF raw = <<>> THEN <<TRUE, <<>>>>
  ELSE LET e == Head(raw)
           code == inflateSync(e[3])
           rest == decodeEntries(Tail(raw))
       IN  IF code[1] /\ rest[1]
             THEN <<TRUE, <<<<e[1], textDecoderDecode(e[2]), utf8Decode(code[2])>>>> \o rest[2]>>
           ELSE <<FALSE, <<>>>>

\* readBundleFile applied to the contents of the bundle file: <<ok, bundle>>;
\* ok is FALSE where it throws.
readBundleFile(contents) ==
  LET bundleMarshalized == marshalLoad(contents)
  IN  IF bundleMarshalized[1] THEN decodeEntries(bundleMarshalized[2]) ELSE <<FALSE, <<>>>>

\* The encoding side, as createBundleFile and createScriptLoaderBundle do it:
\* each code compressed with deflateSync, the array dumped with marshal.dump.
encodeBundle(entries) ==
  marshalDump([i \in 1..Len(entries) |->
                 <<entries[i][1], entries[i][2], deflateSync(entries[i][3])>>])

(***************************************************************************)
(* Constants of scripts_controller                                         *)
(***************************************************************************)
SCRIPTS_NOT_EXTRACTED == 100
SCRIPTS_EXTRACTED == 200
LOADER_BUNDLE_CREATED == 300
BUNDLE_CREATED == 400
LOADER_SCRIPT_SECTION == 133769420
SECTION_MAX_VAL == 133769420

\* 'RGSS Script Editor Loader'
LOADER_SCRIPT_NAME ==
  <<82, 71, 83, 83, 32, 83, 99, 114, 105, 112, 116, 32, 69, 100, 105, 116, 111, 114,
    32, 76, 111, 97, 100, 101, 114>>

\* '# encoding: utf-8'
ENCODING_PRAGMA ==
  <<35, 32, 101, 110, 99, 111, 100, 105, 110, 103, 58, 32, 117, 116, 102, 45, 56>>

(***************************************************************************)
(* Sections                                                                *)
(***************************************************************************)
isLoaderScript(scriptSection) == scriptSection = LOADER_SCRIPT_SECTION

\* Array.prototype.includes
arrayIncludes(array, x) == \E i \in 1..Len(array) : array[i] = x

\* Math.floor(Math.random() * SECTION_MAX_VAL) for the modelled draws of
\* Math.random(), the largest value below 1 among them.
randomSections ==
  {(k * SECTION_MAX_VAL) \div RandomResolution : k \in 0..(RandomResolution - 1)}
  \cup {SECTION_MAX_VAL - 1}

\* Variant of generateScriptSection: the drawn section is returned without
\* looking it up in the list.
generateScriptSection_NoLookup(sections) == randomSections

\* The values generateScriptSection(sections) can return: the do-while loop
\* draws again while the drawn section is in the list.
generateScriptSection(sections) ==
  {section \in randomSections : ~arrayIncludes(sections, section)}

\* Variant of checkValidExtraction: Array.every in place of Array.some.
checkValidExtraction_Every(bundleArray) ==
  \A i \in 1..Len(bundleArray) :
    ~isLoaderScript(bundleArray[i][1]) /\ bundleArray[i][1] \in Int

\* checkValidExtraction: some entry has a numeric section that is not the loader's.
checkValidExtraction(bundleArray) ==
  \E i \in 1..Len(bundleArray) :
    LET scriptSection == bundleArray[i][1]
    IN  IF isLoaderScript(scriptSection) THEN FALSE
        ELSE IF scriptSection \in Int THEN TRUE
        ELSE FALSE

\* processScriptCode
processScriptCode(scriptCode) ==
  IF ~includes(scriptCode, ENCODING_PRAGMA) THEN ENCODING_PRAGMA \o <<10>> \o scriptCode
  ELSE scriptCode

(***************************************************************************)
(* Clock                                                                   *)
(***************************************************************************)
\* The day the run happens on, as the getters of Date give it (getMonth counts
\* from 0), and the time the run starts at: 09:59:58.
Today == [fullYear |-> 2023, month |-> 8, date |-> 5]
StartTime == 35998

\* currentDate: 'yyyy-MM-dd_HH.mm.ss' of the local time.
currentDate(now) ==
  LET day == padStart(toString(Today.date), 2, 48)
      month == padStart(toString(Today.month + 1), 2, 48)
      year == toString(Today.fullYear)
      hour == padStart(toString(now \div 3600), 2, 48)
      minutes == padStart(toString((now \div 60) % 60), 2, 48)
      seconds == padStart(toString(now % 60), 2, 48)
  IN  year \o <<45>> \o month \o <<45>> \o day \o <<95>> \o hour \o <<46>> \o minutes
      \o <<46>> \o seconds

(***************************************************************************)
(* File system                                                             *)
(***************************************************************************)
EmptyMap == [x \in {} |-> x]

\* Path of the bundle file: 'Data/Scripts.rvdata2'
BUNDLE_FILE ==
  <<68, 97, 116, 97, 47, 83, 99, 114, 105, 112, 116, 115, 46, 114, 118, 100, 97, 116, 97, 50>>

\* Relative path of the scripts folder given to the loader: 'Scripts'
SCRIPTS_FOLDER == <<83, 99, 114, 105, 112, 116, 115>>

RECURSIVE textLess(_, _)
\* Order of two names in a directory listing: by code unit.
textLess(a, b) ==
  IF b = <<>> THEN FALSE
  ELSE IF a = <<>> THEN TRUE
  ELSE IF Head(a) # Head(b) THEN Head(a) < Head(b)
  ELSE textLess(Tail(a), Tail(b))

RECURSIVE sortedNames(_)
sortedNames(S) ==
  IF S = {} THEN <<>>
  ELSE LET first == CHOOSE a \in S : \A b \in S \ {a} : textLess(a, b)
       IN  <<first>> \o sortedNames(S \ {first})

\* fs.readdirSync(base): the names of the entries of directory base.
readdirSync(nodes, base) ==
  sortedNames({p[Len(p)] : p \in {q \in DOMAIN nodes :
                 Len(q) = Len(base) + 1 /\ SubSeq(q, 1, Len(base)) = base}})

RECURSIVE readDirFrom(_, _, _, _)
\* The forEach of readDir over the listing of base, from entry k on.
readDirFrom(nodes, base, recursive, k) ==
  LET listing == readdirSync(nodes, base)
  IN  IF k > Len(listing) THEN <<>>
      ELSE LET fullPath == Append(base, listing[k])
           IN  <<fullPath>>
               \o (IF nodes[fullPath].dir /\ recursive
                     THEN readDirFrom(nodes, fullPath, recursive, 1) ELSE <<>>)
               \o readDirFrom(nodes, base, recursive, k + 1)

\* readDir(base, recursive): the entries of base, each directory followed by
\* the entries below it.
readDir(nodes, base, recursive) == readDirFrom(nodes, base, recursive, 1)

\* path.extname of a file name: from its last '.', which is not its first character.
extname(name) ==
  LET dotsAt == {i \in 2..Len(name) : name[i] = 46}
  IN  IF dotsAt = {} THEN <<>>
      ELSE SubSeq(name, CHOOSE i \in dotsAt : \A j \in dotsAt : i >= j, Len(name))

toLowerCase(s) == [i \in 1..Len(s) |-> ToLower(s[i])]

\* isRubyScript(path): path exists, is a file and has the extension '.rb'.
isRubyScript(nodes, path) ==
  /\ path \in DOMAIN nodes
  /\ ~nodes[path].dir
  /\ toLowerCase(extname(path[Len(path)])) = RB_EXT

RECURSIVE pathText(_)
\* The text of a path: its names joined with '/'.
pathText(path) ==
  IF Len(path) = 1 THEN path[1]
  ELSE path[1] \o <<47>> \o pathText(Tail(path))

\* readDirectory(scriptsFolder, {recursive: true}, entries => entries.filter(isRubyScript))
rubyScripts(nodes) ==
  SelectSeq(readDir(nodes, <<>>, TRUE), LAMBDA path : isRubyScript(nodes, path))

(***************************************************************************)
(* createBackUp                                                            *)
(***************************************************************************)
\* Name of the backup file: '{basename} - {currentDate()}.bak'
backUpFileName(filePath, now) ==
  basename(filePath) \o <<32, 45, 32>> \o currentDate(now) \o <<46, 98, 97, 107>>

\* Variant of createBackUp: without a backups folder nothing is copied.
createBackUp_OnlyIntoExistingFolder(file, folder, now, copyFails) ==
  IF ~file.exists THEN [threw |-> TRUE, backups |-> folder, log |-> <<>>]
  ELSE IF ~folder.exists THEN [threw |-> FALSE, backups |-> folder, log |-> <<>>]
  ELSE IF copyFails THEN [threw |-> TRUE, backups |-> folder, log |-> <<"copy throws">>]
  ELSE [threw |-> FALSE,
        backups |-> [folder EXCEPT !.files =
                       (backUpFileName(BUNDLE_FILE, now) :> file.data) @@ folder.files],
        log |-> <<"copy">>]

\* createBackUp(filePath, backUpsFolder) at time now; copyFails: fs.copyFileSync
\* throws. Gives [threw, backups, log]: the backups folder afterwards and the
\* file operations done, in order.
createBackUp(file, folder, now, copyFails) ==
  IF ~file.exists THEN [threw |-> TRUE, backups |-> folder, log |-> <<>>]
  ELSE LET made == [folder EXCEPT !.exists = TRUE]
           mkdirLog == IF ~folder.exists THEN <<"mkdir">> ELSE <<>>
           backUpFilePath == backUpFileName(BUNDLE_FILE, now)
       IN  IF copyFails
             THEN [threw |-> TRUE, backups |-> made, log |-> mkdirLog \o <<"copy throws">>]
           ELSE [threw |-> FALSE,
                 backups |-> [made EXCEPT !.files = (backUpFilePath :> file.data) @@ made.files],
                 log |-> mkdirLog \o <<"copy">>]

(***************************************************************************)
(* createScriptLoaderBundle                                                *)
(***************************************************************************)
\* pathResolve.resolveRPG: the path with the engine's separator '/'.
resolveRPG(path) == [i \in 1..Len(path) |-> IF path[i] = 92 THEN 47 ELSE path[i]]

\* The generated Ruby script; of its text the model keeps the header line and
\* the line that sets SCRIPTS_PATH.
loaderScript(loaderScriptsFolder) ==
  <<35, 32>> \o LOADER_SCRIPT_NAME \o <<10, 34>> \o loaderScriptsFolder \o <<34, 10>>

\* Variant of the loader bundle: the loader entry gets section 0.
loaderBundle_PlainSection(scriptFolder) ==
  << <<0, LOADER_SCRIPT_NAME, loaderScript(resolveRPG(scriptFolder))>> >>

\* The bundle createScriptLoaderBundle writes.
loaderBundle(scriptFolder) ==
  << <<LOADER_SCRIPT_SECTION, LOADER_SCRIPT_NAME, loaderScript(resolveRPG(scriptFolder))>> >>

\* Variant of createScriptLoaderBundle: the bundle file is written first and
\* backed up afterwards.
createScriptLoaderBundle_WriteFirst(file, folder, scriptFolder, now, copyFails) ==
  LET written == [exists |-> TRUE, data |-> encodeBundle(loaderBundle(scriptFolder))]
      backUp == createBackUp(written, folder, now, copyFails)
  IN  [threw |-> backUp.threw,
       code |-> IF backUp.threw THEN 0 ELSE LOADER_BUNDLE_CREATED,
       bundle |-> written, backups |-> backUp.backups,
       log |-> <<"write">> \o backUp.log]

\* createScriptLoaderBundle(bundleFile, backUpsFolderPath, scriptFolder):
\* [threw, code, bundle, backups, log].
createScriptLoaderBundle(file, folder, scriptFolder, now, copyFails) ==
  LET backUp == createBackUp(file, folder, now, copyFails)
  IN  IF backUp.threw
        THEN [threw |-> TRUE, code |-> 0, bundle |-> file, backups |-> backUp.backups,
              log |-> backUp.log]
      ELSE [threw |-> FALSE, code |-> LOADER_BUNDLE_CREATED,
            bundle |-> [exists |-> TRUE, data |-> encodeBundle(loaderBundle(scriptFolder))],
            backups |-> backUp.backups,
            log |-> backUp.log \o <<"write">>]

(***************************************************************************)
(* checkExtractedScripts, extractScripts                                   *)
(***************************************************************************)
\* checkExtractedScripts(bundleFile): [threw, code].
checkExtractedScripts(file) ==
  LET read == IF file.exists THEN readBundleFile(file.data) ELSE <<FALSE, <<>>>>
  IN  IF ~read[1] THEN [threw |-> TRUE, code |-> 0]
      ELSE IF checkValidExtraction(read[2]) THEN [threw |-> FALSE, code |-> SCRIPTS_NOT_EXTRACTED]
      ELSE [threw |-> FALSE, code |-> SCRIPTS_EXTRACTED]

\* createScriptFolder
createScriptFolder(folder) == IF ~folder.exists THEN [folder EXCEPT !.exists = TRUE] ELSE folder

RECURSIVE extractLoop_LoaderToo(_, _, _)
\* Variant of the loop of extractScripts: the loader entry is written as well.
extractLoop_LoaderToo(bundleArray, i, acc) ==
  IF ~(i < Len(bundleArray)) THEN acc
  ELSE LET name == formatScriptName(bundleArray[i + 1][2], i)
           code == processScriptCode(bundleArray[i + 1][3])
       IN  extractLoop_LoaderToo(bundleArray, i + 1,
             <<(<<name>> :> [dir |-> FALSE, data |-> utf8Encode(code)]) @@ acc[1],
               Append(acc[2], name)>>)

RECURSIVE extractLoop(_, _, _)
\* The for loop of extractScripts from index i on: <<nodes, log>>.
extractLoop(bundleArray, i, acc) ==
  IF ~(i < Len(bundleArray)) THEN acc
  ELSE LET section == bundleArray[i + 1][1]
           name == formatScriptName(bundleArray[i + 1][2], i)
           code == processScriptCode(bundleArray[i + 1][3])
       IN  IF isLoaderScript(section) THEN extractLoop(bundleArray, i + 1, acc)
           ELSE extractLoop(bundleArray, i + 1,
                  <<(<<name>> :> [dir |-> FALSE, data |-> utf8Encode(code)]) @@ acc[1],
                    Append(acc[2], name)>>)

\* Variant of extractScripts: the scripts folder is created before the bundle
\* is checked.
extractScripts_FolderFirst(file, folder) ==
  LET read == IF file.exists THEN readBundleFile(file.data) ELSE <<FALSE, <<>>>>
      made == createScriptFolder(folder)
  IN  IF ~read[1] THEN [threw |-> TRUE, code |-> 0, scripts |-> folder, log |-> <<>>]
      ELSE IF checkValidExtraction(read[2])
        THEN LET done == extractLoop(read[2], 0, <<made.nodes, <<>>>>)
             IN  [threw |-> FALSE, code |-> SCRIPTS_EXTRACTED,
                  scripts |-> [made EXCEPT !.nodes = done[1]], log |-> done[2]]
      ELSE [threw |-> FALSE, code |-> SCRIPTS_NOT_EXTRACTED, scripts |-> made, log |-> <<>>]

\* extractScripts(bundleFile, scriptFolder): [threw, code, scripts, log]; log
\* lists the names of the files written, in order.
extractScripts(file, folder) ==
  LET read == IF file.exists THEN readBundleFile(file.data) ELSE <<FALSE, <<>>>>
  IN  IF ~read[1] THEN [threw |-> TRUE, code |-> 0, scripts |-> folder, log |-> <<>>]
      ELSE IF checkValidExtraction(read[2])
        THEN LET made == createScriptFolder(folder)
                 done == extractLoop(read[2], 0, <<made.nodes, <<>>>>)
             IN  [threw |-> FALSE, code |-> SCRIPTS_EXTRACTED,
                  scripts |-> [made EXCEPT !.nodes = done[1]], log |-> done[2]]
      ELSE [threw |-> FALSE, code |-> SCRIPTS_NOT_EXTRACTED, scripts |-> folder, log |-> <<>>]

(***************************************************************************)
(* createBundleFile                                                        *)
(***************************************************************************)
RECURSIVE bundleLoop(_, _, _, _)
\* The for loop of createBundleFile from index i on: the set of bundles it can
\* produce, one for each run of generateScriptSection draws.
bundleLoop(nodes, found, i, sections) ==
  IF ~(i < Len(found)) THEN {<<>>}
  ELSE LET script == found[i + 1]
           code == utf8Decode(nodes[script].data)
       IN  UNION {{<<<<section, deformatScriptName(pathText(script)), code>>>> \o rest :
                     rest \in bundleLoop(nodes, found, i + 1, Append(sections, section))} :
                   section \in generateScriptSection(sections)}

\* Variant of createBundleFile: the scripts folder is not checked for
\* existence; a missing folder lists as empty.
createBundleFile_NoFolderCheck(folder, destination) ==
  {[threw |-> FALSE, code |-> BUNDLE_CREATED,
    bundle |-> [exists |-> TRUE, data |-> encodeBundle(entries)],
    log |-> <<"write">>] :
     entries \in bundleLoop(folder.nodes, rubyScripts(folder.nodes), 0,
                            <<LOADER_SCRIPT_SECTION>>)}

\* createBundleFile(scriptsFolder, destination): the set of outcomes
\* [threw, code, bundle, log]; destination is the bundle file.
createBundleFile(folder, destination) ==
  IF ~folder.exists THEN {[threw |-> TRUE, code |-> 0, bundle |-> destination, log |-> <<>>]}
  ELSE {[threw |-> FALSE, code |-> BUNDLE_CREATED,
         bundle |-> [exists |-> TRUE, data |-> encodeBundle(entries)],
         log |-> <<"write">>] :
          entries \in bundleLoop(folder.nodes, rubyScripts(folder.nodes), 0,
                                 <<LOADER_SCRIPT_SECTION>>)}

(***************************************************************************)
(* Initial file system                                                     *)
(***************************************************************************)
\* Entries a bundle file holds before the run: the loader, and two scripts
\* whose names differ by an invalid character only ('B' and '/B').
InitEntries ==
  { <<LOADER_SCRIPT_SECTION, LOADER_SCRIPT_NAME, loaderScript(SCRIPTS_FOLDER)>>,
    <<0, <<66>>, <<112>>>>,
    <<54321, <<47, 66>>, ENCODING_PRAGMA \o <<10, 112>>>> }

\* Bundles before the run: the script 'B', the loader and the script '/B' in
\* this order, each of them there or not (the loader first, last, in the
\* middle, or alone).
InitBundles ==
  {b \in SeqsUpTo(InitEntries, Cardinality(InitEntries)) :
     \A i, j \in 1..Len(b) : i < j =>
        \/ b[i][1] = 0 /\ b[j][1] # 0
        \/ b[i][1] = LOADER_SCRIPT_SECTION /\ b[j][1] = 54321}

\* A script 'C' whose code has the encoding pragma on its second line only.
LatePragmaEntry == <<777, <<67>>, <<112, 10>> \o ENCODING_PRAGMA>>

InitBundleFiles ==
  {[exists |-> FALSE, data |-> <<>>]}
  \cup {[exists |-> TRUE, data |-> encodeBundle(b)] : b \in InitBundles \cup {<<LatePragmaEntry>>}}

\* Name of a backup made one second before the run starts.
OldBackUp == backUpFileName(BUNDLE_FILE, StartTime - 1)

InitBackups ==
  { [exists |-> FALSE, files |-> EmptyMap],
    [exists |-> TRUE, files |-> (OldBackUp :> <<4, 8, 91, 0>>)] }

\* A scripts folder: d/, d/c.RB, n.txt
SampleNodes ==
  (<< <<100>> >> :> [dir |-> TRUE, data |-> <<>>])
  @@ (<< <<100>>, <<99, 46, 82, 66>> >> :> [dir |-> FALSE, data |-> <<113>>])
  @@ (<< <<110, 46, 116, 120, 116>> >> :> [dir |-> FALSE, data |-> <<>>])

InitScripts ==
  { [exists |-> FALSE, nodes |-> EmptyMap],
    [exists |-> TRUE, nodes |-> EmptyMap],
    [exists |-> TRUE, nodes |-> SampleNodes] }

NoOp == [op |-> "none", threw |-> FALSE, code |-> 0, log |-> <<>>,
         pre |-> [bundle |-> [exists |-> FALSE, data |-> <<>>],
                  backups |-> [exists |-> FALSE, files |-> EmptyMap],
                  scripts |-> [exists |-> FALSE, nodes |-> EmptyMap],
                  clock |-> StartTime]]

Snapshot == [bundle |-> bundleFile, backups |-> backups, scripts |-> scripts, clock |-> clock]

(***************************************************************************)
(* Harness of the name formatter: format a display name, deformat the      *)
(* resulting file name.                                                    *)
(***************************************************************************)
NameAlphabet == {Ch.B, Ch.r, Ch.b, Ch.dot, Ch.sp, Ch.dash, Ch.one, Ch.slash, Ch.nl}

DisplayNames == SeqsUpTo(NameAlphabet, MaxNameLen)

ScriptIndexes == {0, 7, 12345}

FmtIdle == [pc |-> "idle", name |-> <<>>, index |-> 0, file |-> <<>>, back |-> <<>>]

\* The file system the harnesses leave alone.
FsIdle ==
  /\ bundleFile = [exists |-> FALSE, data |-> <<>>]
  /\ backups = [exists |-> FALSE, files |-> EmptyMap]
  /\ scripts = [exists |-> FALSE, nodes |-> EmptyMap]
  /\ clock = StartTime
  /\ ops = 0
  /\ last = NoOp
  /\ original = [known |-> FALSE, data |-> <<>>]

fsVars == <<bundleFile, backups, scripts, clock, ops, last, original>>

CodecIdle == [pc |-> "idle", entries |-> <<>>, bytes |-> <<>>, out |-> <<FALSE, <<>>>>]

GenIdle == [pc |-> "idle", sections |-> <<>>, section |-> 0, again |-> FALSE]

LoaderIdle ==
  [pc |-> "idle", root |-> EmptyMap, cache |-> <<>>, stale |-> <<>>, loaded |-> <<>>,
   raised |-> FALSE]

InitName ==
  /\ FsIdle
  /\ codec = CodecIdle
  /\ gen = GenIdle
  /\ loader = LoaderIdle
  /\ \E name \in DisplayNames, index \in ScriptIndexes :
       fmt = [pc |-> "start", name |-> name, index |-> index, file |-> <<>>, back |-> <<>>]

Format ==
  /\ fmt.pc = "start"
  /\ fmt' = [fmt EXCEPT !.pc = "formatted", !.file = formatScriptName(fmt.name, fmt.index)]
  /\ UNCHANGED <<fsVars, codec, gen, loader>>

Deformat ==
  /\ fmt.pc = "formatted"
  /\ fmt' = [fmt EXCEPT !.pc = "done", !.back = deformatScriptName(fmt.file)]
  /\ UNCHANGED <<fsVars, codec, gen, loader>>

NextName == Format \/ Deformat

SpecName == InitName /\ [][NextName]_vars

(***************************************************************************)
(* Harness of the bundle codec: encode a bundle as createBundleFile does,  *)
(* decode the bytes with readBundleFile.                                   *)
(***************************************************************************)
\* Entries given to the codec: sections of every Fixnum width, names and
\* codes that are empty, hold a character of several bytes or begin with U+FEFF.
CodecEntries ==
  {<<section, name, code>> :
     section \in {0, 123, LOADER_SCRIPT_SECTION},
     name \in {<<>>, <<9660, 66>>, <<65279, 66>>},
     code \in {<<>>, <<65279, 112, 10>>}}

CodecBundles ==
  {b \in SeqsUpTo(CodecEntries, MaxCodecEntries) :
     \A i, j \in 1..Len(b) : i # j => b[i][1] # b[j][1]}

InitCodec ==
  /\ FsIdle
  /\ fmt = FmtIdle
  /\ gen = GenIdle
  /\ loader = LoaderIdle
  /\ \E entries \in CodecBundles :
       codec = [pc |-> "start", entries |-> entries, bytes |-> <<>>, out |-> <<FALSE, <<>>>>]

Encode ==
  /\ codec.pc = "start"
  /\ codec' = [codec EXCEPT !.pc = "encoded", !.bytes = encodeBundle(codec.entries)]
  /\ UNCHANGED <<fsVars, fmt, gen, loader>>

Decode ==
  /\ codec.pc = "encoded"
  /\ codec' = [codec EXCEPT !.pc = "done", !.out = readBundleFile(codec.bytes)]
  /\ UNCHANGED <<fsVars, fmt, gen, loader>>

NextCodec == Encode \/ Decode

SpecCodec == InitCodec /\ [][NextCodec]_vars

(***************************************************************************)
(* The operations on the file system                                       *)
(***************************************************************************)
Init ==
  /\ bundleFile \in InitBundleFiles
  /\ backups \in InitBackups
  /\ scripts \in InitScripts
  /\ clock = StartTime
  /\ ops = 0
  /\ last = NoOp
  /\ original = [known |-> FALSE, data |-> <<>>]
  /\ fmt = FmtIdle
  /\ codec = CodecIdle
  /\ gen = GenIdle
  /\ loader = LoaderIdle

\* A second passes.
Tick ==
  /\ clock < StartTime + MaxTicks
  /\ clock' = clock + 1
  /\ UNCHANGED <<bundleFile, backups, scripts, ops, last, original, fmt, codec, gen, loader>>

CheckExtractedScripts ==
  /\ ops < MaxOps
  /\ LET out == checkExtractedScripts(bundleFile)
     IN  last' = [op |-> "check", threw |-> out.threw, code |-> out.code, log |-> <<>>,
                  pre |-> Snapshot]
  /\ ops' = ops + 1
  /\ UNCHANGED <<bundleFile, backups, scripts, clock, original, fmt, codec, gen, loader>>

ExtractScripts ==
  /\ ops < MaxOps
  /\ LET out == extractScripts(bundleFile, scripts)
     IN  /\ scripts' = out.scripts
         /\ last' = [op |-> "extract", threw |-> out.threw, code |-> out.code,
                     log |-> out.log, pre |-> Snapshot]
  /\ ops' = ops + 1
  /\ UNCHANGED <<bundleFile, backups, clock, original, fmt, codec, gen, loader>>

CreateScriptLoaderBundle ==
  /\ ops < MaxOps
  /\ \E copyFails \in BOOLEAN :
       LET out == createScriptLoaderBundle(bundleFile, backups, SCRIPTS_FOLDER, clock, copyFails)
       IN  /\ bundleFile' = out.bundle
           /\ backups' = out.backups
           /\ last' = [op |-> "loader", threw |-> out.threw, code |-> out.code,
                       log |-> out.log, pre |-> Snapshot]
           /\ original' = IF ~original.known /\ ~out.threw
                             THEN [known |-> TRUE, data |-> bundleFile.data]
                           ELSE original
  /\ ops' = ops + 1
  /\ UNCHANGED <<scripts, clock, fmt, codec, gen, loader>>

CreateBundleFile ==
  /\ ops < MaxOps
  /\ \E out \in createBundleFile(scripts, bundleFile) :
       /\ bundleFile' = out.bundle
       /\ last' = [op |-> "build", threw |-> out.threw, code |-> out.code,
                   log |-> out.log, pre |-> Snapshot]
  /\ ops' = ops + 1
  /\ UNCHANGED <<backups, scripts, clock, original, fmt, codec, gen, loader>>

Next ==
  \/ Tick
  \/ CheckExtractedScripts
  \/ ExtractScripts
  \/ CreateScriptLoaderBundle
  \/ CreateBundleFile

Spec == Init /\ [][Next]_vars

(***************************************************************************)
(* createLoadOrderFile                                                     *)
(***************************************************************************)
\* 'load_order.txt'
LOAD_ORDER_FILE_NAME ==
  <<108, 111, 97, 100, 95, 111, 114, 100, 101, 114, 46, 116, 120, 116>>

RECURSIVE writeLines(_)
\* What the forEach of createLoadOrderFile writes: resolveRPG of each script
\* followed by a line feed.
writeLines(found) ==
  IF found = <<>> THEN <<>>
  ELSE resolveRPG(pathText(Head(found))) \o <<10>> \o writeLines(Tail(found))

\* Variant of createLoadOrderFile: the manifest is opened for appending.
createLoadOrderFile_Append(folder) ==
  LET loadOrderPath == <<LOAD_ORDER_FILE_NAME>>
      prior == IF loadOrderPath \in DOMAIN folder.nodes
                 THEN folder.nodes[loadOrderPath].data ELSE <<>>
  IN  IF ~folder.exists
        THEN [threw |-> TRUE, scripts |-> folder, log |-> <<>>]
      ELSE LET found == rubyScripts(folder.nodes)
           IN  [threw |-> FALSE,
                scripts |-> [folder EXCEPT !.nodes =
                   (loadOrderPath :> [dir |-> FALSE,
                                      data |-> prior \o utf8Encode(writeLines(found))]) @@ @],
                log |-> [i \in 1..Len(found) |-> resolveRPG(pathText(found[i]))]]

\* createLoadOrderFile(scriptsFolder): [threw, scripts, log]; scripts is the
\* folder afterwards, log the lines written, in order. readDirectory throws for
\* a missing folder, fs.openSync for a manifest path that is a directory.
createLoadOrderFile(folder) ==
  LET loadOrderPath == <<LOAD_ORDER_FILE_NAME>>
  IN  IF ~folder.exists
        THEN [threw |-> TRUE, scripts |-> folder, log |-> <<>>]
      ELSE LET found == rubyScripts(folder.nodes)
           IN  IF loadOrderPath \in DOMAIN folder.nodes /\ folder.nodes[loadOrderPath].dir
                 THEN [threw |-> TRUE, scripts |-> folder, log |-> <<>>]
               ELSE [threw |-> FALSE,
                     scripts |-> [folder EXCEPT !.nodes =
                        (loadOrderPath :> [dir |-> FALSE,
                                           data |-> utf8Encode(writeLines(found))]) @@ @],
                     log |-> [i \in 1..Len(found) |-> resolveRPG(pathText(found[i]))]]

\* Entries a scripts folder can hold before the manifest is written: scripts in
\* the folder and in a subfolder (one with the extension in capitals), a text
\* file, a directory named like a script with a script in it, and a prior
\* manifest.
LoadOrderNodes ==
  (<< <<100>> >> :> [dir |-> TRUE, data |-> <<>>])
  @@ (<< <<100>>, <<99, 46, 82, 66>> >> :> [dir |-> FALSE, data |-> <<113>>])
  @@ (<< <<100>>, <<97, 46, 114, 98>> >> :> [dir |-> FALSE, data |-> <<>>])
  @@ (<< <<110, 46, 116, 120, 116>> >> :> [dir |-> FALSE, data |-> <<>>])
  @@ (<< <<101, 46, 114, 98>> >> :> [dir |-> TRUE, data |-> <<>>])
  @@ (<< <<101, 46, 114, 98>>, <<102, 46, 114, 98>> >> :> [dir |-> FALSE, data |-> <<112>>])
  @@ (<< <<98, 46, 114, 98>> >> :> [dir |-> FALSE, data |-> <<112>>])
  @@ (<<LOAD_ORDER_FILE_NAME>> :> [dir |-> FALSE, data |-> <<122, 46, 114, 98, 10>>])

\* The scripts folders of these entries: any of them, each with its directory.
LoadOrderFolders ==
  {[exists |-> FALSE, nodes |-> EmptyMap]}
  \cup {[exists |-> TRUE, nodes |-> [p \in S |-> LoadOrderNodes[p]]] :
          S \in {T \in SUBSET DOMAIN LoadOrderNodes :
                   \A p \in T : Len(p) > 1 => SubSeq(p, 1, Len(p) - 1) \in T}}

InitLoadOrder ==
  /\ bundleFile = [exists |-> FALSE, data |-> <<>>]
  /\ backups = [exists |-> FALSE, files |-> EmptyMap]
  /\ scripts \in LoadOrderFolders
  /\ clock = StartTime
  /\ ops = 0
  /\ last = NoOp
  /\ original = [known |-> FALSE, data |-> <<>>]
  /\ fmt = FmtIdle
  /\ codec = CodecIdle
  /\ gen = GenIdle
  /\ loader = LoaderIdle

CreateLoadOrderFile ==
  /\ ops < MaxOps
  /\ LET out == createLoadOrderFile(scripts)
     IN  /\ scripts' = out.scripts
         /\ last' = [op |-> "loadorder", threw |-> out.threw, code |-> 0,
                     log |-> out.log, pre |-> Snapshot]
  /\ ops' = ops + 1
  /\ UNCHANGED <<bundleFile, backups, clock, original, fmt, codec, gen, loader>>

NextLoadOrder == CreateLoadOrderFile

SpecLoadOrder == InitLoadOrder /\ [][NextLoadOrder]_vars

(***************************************************************************)
(* The do-while loop of generateScriptSection, step by step                *)
(***************************************************************************)
\* Sections the list given to generateScriptSection can hold: the modelled
\* draws, the loader's section and a section that is no modelled draw.
KnownSections == randomSections \cup {LOADER_SCRIPT_SECTION, 54321}

RECURSIVE listOf(_)
\* A list of the numbers of a set, in increasing order.
listOf(S) ==
  IF S = {} THEN <<>>
  ELSE LET least == CHOOSE x \in S : \A y \in S : x <= y
       IN  <<least>> \o listOf(S \ {least})

InitSection ==
  /\ FsIdle
  /\ fmt = FmtIdle
  /\ codec = CodecIdle
  /\ loader = LoaderIdle
  /\ \E S \in SUBSET KnownSections :
       gen = [pc |-> "draw", sections |-> listOf(S), section |-> 0, again |-> FALSE]

\* section = Math.floor(Math.random() * SECTION_MAX_VAL), drawing the value v
DrawSection(v) ==
  /\ gen.pc = "draw"
  /\ gen' = [gen EXCEPT !.pc = "test", !.section = v]
  /\ UNCHANGED <<fsVars, fmt, codec, loader>>

Draw == \E v \in randomSections : DrawSection(v)

\* Variant of the loop condition: the loop body runs once, whatever was drawn.
TestSection_Once ==
  /\ gen.pc = "test"
  /\ gen' = [gen EXCEPT !.pc = "done"]
  /\ UNCHANGED <<fsVars, fmt, codec, loader>>

\* while (sections.includes(section)); return section
TestSection ==
  /\ gen.pc = "test"
  /\ gen' = IF arrayIncludes(gen.sections, gen.section)
              THEN [gen EXCEPT !.pc = "draw", !.again = TRUE]
            ELSE [gen EXCEPT !.pc = "done"]
  /\ UNCHANGED <<fsVars, fmt, codec, loader>>

NextSection == Draw \/ TestSection

SpecSection == InitSection /\ [][NextSection]_vars

\* Fair random sampling: a loop that keeps drawing draws every value again and
\* again, and the loop condition is evaluated after each draw.
SpecSectionFair ==
  /\ SpecSection
  /\ WF_vars(TestSection)
  /\ \A v \in randomSections : SF_vars(DrawSection(v))

(***************************************************************************)
(* The generated loader script (Ruby): module ScriptLoader                 *)
(***************************************************************************)
\* Dir.pwd, the folder of the game: '/g'
PWD == <<47, 103>>

\* SCRIPTS_PATH = "${loaderScriptsFolder}"
SCRIPTS_PATH == resolveRPG(SCRIPTS_FOLDER)

\* String#strip: leading and trailing whitespace and null removed.
strip(s) ==
  LET keep == {i \in 1..Len(s) : s[i] \notin {0, 9, 10, 11, 12, 13, 32}}
  IN  IF keep = {} THEN <<>>
      ELSE SubSeq(s, CHOOSE i \in keep : \A j \in keep : i <= j,
                     CHOOSE i \in keep : \A j \in keep : i >= j)

RECURSIVE pieces(_, _)
\* The pieces of s between the separators, empty ones included.
pieces(s, sep) ==
  LET at == {i \in 1..Len(s) : s[i] = sep}
  IN  IF at = {} THEN <<s>>
      ELSE LET first == CHOOSE i \in at : \A j \in at : i <= j
           IN  <<SubSeq(s, 1, first - 1)>> \o pieces(SubSeq(s, first + 1, Len(s)), sep)

RECURSIVE dropEmptyTail(_)
dropEmptyTail(list) ==
  IF list # <<>> /\ list[Len(list)] = <<>> THEN dropEmptyTail(SubSeq(list, 1, Len(list) - 1))
  ELSE list

\* String#split(sep) for a one-character separator: the pieces between the
\* separators, without the empty pieces at the end.
split(s, sep) == dropEmptyTail(pieces(s, sep))

\* File.join(a, b): the two joined by one '/'.
File_join(a, b) ==
  LET left == IF a # <<>> /\ a[Len(a)] = 47 THEN SubSeq(a, 1, Len(a) - 1) ELSE a
      right == IF b # <<>> /\ b[1] = 47 THEN Tail(b) ELSE b
  IN  left \o <<47>> \o right

\* File.dirname(path): what precedes the last '/', '.' without one.
File_dirname(path) ==
  LET at == {i \in 1..Len(path) : path[i] = 47}
  IN  IF at = {} THEN <<46>>
      ELSE LET last_ == CHOOSE i \in at : \A j \in at : i >= j
           IN  IF last_ = 1 THEN <<47>> ELSE SubSeq(path, 1, last_ - 1)

\* The names of a path, without the empty ones.
pathNames(path) == SelectSeq(split(path, 47) , LAMBDA name : name # <<>>)

\* The entry of the game folder a path names: the names below Dir.pwd, for an
\* absolute path and for one relative to Dir.pwd; <<"..">> for a path outside.
entryOf(path) ==
  LET names == pathNames(path)
      pwd == pathNames(PWD)
  IN  IF path # <<>> /\ path[1] = 47
        THEN IF Len(names) >= Len(pwd) /\ SubSeq(names, 1, Len(pwd)) = pwd
               THEN SubSeq(names, Len(pwd) + 1, Len(names))
             ELSE <<<<46, 46>>>>
      ELSE names

\* File.file?(path)
File_file(root, path) ==
  entryOf(path) \in DOMAIN root /\ ~root[entryOf(path)].dir

\* File.directory?(path)
File_directory(root, path) ==
  \/ entryOf(path) = <<>>
  \/ entryOf(path) \in DOMAIN root /\ root[entryOf(path)].dir

\* Dir.entries(path): '.', '..' and the names in the directory.
Dir_entries(root, path) ==
  <<<<46>>, <<46, 46>>>> \o readdirSync(root, entryOf(path))

\* File.extname(path): the extension of the last name of the path.
File_extname(path) ==
  LET names == pathNames(path)
      name == IF names = <<>> THEN <<>> ELSE names[Len(names)]
      dotsAt == {i \in 2..Len(name) : name[i] = 46}
  IN  IF dotsAt = {} \/ name[Len(name)] = 46 THEN <<>>
      ELSE SubSeq(name, CHOOSE i \in dotsAt : \A j \in dotsAt : i >= j, Len(name))

\* String#downcase
downcase(s) == [i \in 1..Len(s) |-> IF s[i] \in 65..90 THEN s[i] + 32 ELSE s[i]]

\* process_path(path)
process_path(path) ==
  LET new_path == strip(path)
  IN  IF ~includes(File_dirname(new_path), PWD)
        THEN File_join(File_join(PWD, SCRIPTS_PATH), new_path)
      ELSE new_path

\* valid_script?(path), with the file system and @cache it reads
valid_script(root, cache, path) ==
  /\ ~(path # <<>> /\ path[1] = 35)
  /\ ~arrayIncludes(cache, path)
  /\ File_file(root, path)
  /\ downcase(File_extname(path)) = RB_EXT

\* valid_directory?(path): the entries are tested by their bare names
valid_directory(root, cache, path) ==
  /\ ~(path # <<>> /\ path[1] = 35)
  /\ File_directory(root, path)
  /\ \E i \in 1..Len(Dir_entries(root, path)) :
       valid_script(root, cache, Dir_entries(root, path)[i])

RECURSIVE load_script(_, _, _)
RECURSIVE load_entries(_, _, _, _, _)
\* load_script(path): st is [cache, loaded], @cache and the scripts loaded so
\* far by Kernel.load; the result is st afterwards.
load_script(root, st, path) ==
  LET script == process_path(path)
  IN  IF valid_script(root, st.cache, script)
        THEN [cache |-> Append(st.cache, script), loaded |-> Append(st.loaded, script)]
      ELSE IF valid_directory(root, st.cache, script)
        THEN load_entries(root, st, script, Dir_entries(root, script), 1)
      ELSE st

\* Dir.entries(script).each of load_script, from entry k on
load_entries(root, st, script, entries, k) ==
  IF k > Len(entries) THEN st
  ELSE IF entries[k] \in {<<46>>, <<46, 46>>}
    THEN load_entries(root, st, script, entries, k + 1)
  ELSE load_entries(root, load_script(root, st, File_join(script, entries[k])),
                    script, entries, k + 1)

RECURSIVE load_each(_, _, _, _)
\* load_order.each of run, from line k on
load_each(root, st, load_order, k) ==
  IF k > Len(load_order) THEN st
  ELSE load_each(root, load_script(root, st, load_order[k]), load_order, k + 1)

\* The lines run reads: File.read(load_order_path).split("\n")
loadOrderOf(root) ==
  split(utf8Decode(root[entryOf(File_join(SCRIPTS_PATH, LOAD_ORDER_FILE_NAME))].data), 10)

\* run: [cache, loaded, raised] afterwards. File.read raises without the
\* manifest, run itself when nothing was loaded.
run(root, cache) ==
  LET load_order_path == File_join(SCRIPTS_PATH, LOAD_ORDER_FILE_NAME)
  IN  IF ~File_file(root, load_order_path)
        THEN [cache |-> <<>>, loaded |-> <<>>, raised |-> TRUE]
      ELSE LET st == load_each(root, [cache |-> <<>>, loaded |-> <<>>], loadOrderOf(root), 1)
           IN  [cache |-> st.cache, loaded |-> st.loaded, raised |-> st.cache = <<>>]

\* The game folder without its load order file: Scripts/ with a.rb, '#a.rb'
\* and d/ holding b.rb and c.RB.
GameNodes ==
  (<<SCRIPTS_FOLDER>> :> [dir |-> TRUE, data |-> <<>>])
  @@ (<<SCRIPTS_FOLDER, <<97, 46, 114, 98>>>> :> [dir |-> FALSE, data |-> <<112>>])
  @@ (<<SCRIPTS_FOLDER, <<35, 97, 46, 114, 98>>>> :> [dir |-> FALSE, data |-> <<112>>])
  @@ (<<SCRIPTS_FOLDER, <<100>>>> :> [dir |-> TRUE, data |-> <<>>])
  @@ (<<SCRIPTS_FOLDER, <<100>>, <<98, 46, 114, 98>>>> :> [dir |-> FALSE, data |-> <<112>>])
  @@ (<<SCRIPTS_FOLDER, <<100>>, <<99, 46, 82, 66>>>> :> [dir |-> FALSE, data |-> <<112>>])

\* A file b.rb in the game folder itself.
GameFolderScript == (<< <<98, 46, 114, 98>> >> :> [dir |-> FALSE, data |-> <<112>>])

\* Lines of a load order file: 'a.rb', 'a.rb ', 'd', 'd/b.rb', '#a.rb', 'x.rb'
LoaderLines ==
  { <<97, 46, 114, 98>>, <<97, 46, 114, 98, 32>>, <<100>>, <<100, 47, 98, 46, 114, 98>>,
    <<35, 97, 46, 114, 98>>, <<120, 46, 114, 98>> }

RECURSIVE linesText(_)
\* The text of a load order file with these lines.
linesText(lines) ==
  IF lines = <<>> THEN <<>> ELSE Head(lines) \o <<10>> \o linesText(Tail(lines))

GameRoots ==
  {GameNodes @@ extra : extra \in {EmptyMap, GameFolderScript}}
  \cup {(<<SCRIPTS_FOLDER, LOAD_ORDER_FILE_NAME>> :>
            [dir |-> FALSE, data |-> utf8Encode(linesText(lines))])
        @@ GameNodes @@ extra :
          lines \in SeqsUpTo(LoaderLines, MaxLines), extra \in {EmptyMap, GameFolderScript}}

\* What @cache can hold when run starts: nothing, or a script of an earlier run.
StaleCaches == {<<>>, <<process_path(<<97, 46, 114, 98>>)>>}

InitLoader ==
  /\ FsIdle
  /\ fmt = FmtIdle
  /\ codec = CodecIdle
  /\ gen = GenIdle
  /\ \E root \in GameRoots, cache \in StaleCaches :
       loader = [pc |-> "start", root |-> root, cache |-> cache, stale |-> <<>>,
                 loaded |-> <<>>, raised |-> FALSE]

\* ScriptLoader.run
Run ==
  /\ loader.pc = "start"
  /\ LET out == run(loader.root, loader.cache)
     IN  loader' = [loader EXCEPT !.pc = "done", !.cache = out.cache, !.stale = loader.cache,
                                  !.loaded = out.loaded, !.raised = out.raised]
  /\ UNCHANGED <<fsVars, fmt, codec, gen>>

NextLoader == Run

SpecLoader == InitLoader /\ [][NextLoader]_vars

(***************************************************************************)
(* The operations from the point where the scripts of a bundle file were   *)
(* extracted and the loader bundle was written over it                     *)
(***************************************************************************)
InitOnce ==
  /\ fmt = FmtIdle
  /\ codec = CodecIdle
  /\ gen = GenIdle
  /\ loader = LoaderIdle
  /\ clock = StartTime
  /\ ops = 0
  /\ \E file \in {f \in InitBundleFiles : f.exists},
        folder \in {f \in InitScripts : DOMAIN f.nodes = {}} :
       LET noBackups == [exists |-> FALSE, files |-> EmptyMap]
           extracted == extractScripts(file, folder)
           written == createScriptLoaderBundle(file, noBackups, SCRIPTS_FOLDER, StartTime, FALSE)
       IN  /\ bundleFile = written.bundle
           /\ backups = written.backups
           /\ scripts = extracted.scripts
           /\ original = [known |-> TRUE, data |-> file.data]
           /\ last = [op |-> "loader", threw |-> written.threw, code |-> written.code,
                      log |-> written.log,
                      pre |-> [bundle |-> file, backups |-> noBackups,
                               scripts |-> extracted.scripts, clock |-> StartTime]]

SpecOnce == InitOnce /\ [][Next]_vars

(***************************************************************************)
(* Claims                                                                  *)
(***************************************************************************)
\* The bundle the last operation found in the bundle file, decoded: <<ok, bundle>>.
PreRead ==
  IF last.pre.bundle.exists THEN readBundleFile(last.pre.bundle.data) ELSE <<FALSE, <<>>>>

\* The bundle now in the bundle file, decoded: <<ok, bundle>>.
NowRead ==
  IF bundleFile.exists THEN readBundleFile(bundleFile.data) ELSE <<FALSE, <<>>>>

\* Name of the backup file a call made at the time of the last operation writes.
PreBackUpName == backUpFileName(BUNDLE_FILE, last.pre.clock)

\* C1: createScriptLoaderBundle writes the bundle file only after the backup
\* copy succeeded: a write in its log of file operations has a successful copy
\* before it, and the copy put the previous contents of the bundle file into
\* the backups folder; when the bundle file is missing or the copy throws, the
\* call throws, nothing is written and the bundle file is as it was.
C1_BackupBeforeOverwrite ==
  last.op = "loader" =>
    /\ \A i \in 1..Len(last.log) :
         last.log[i] = "write" => \E j \in 1..(i - 1) : last.log[j] = "copy"
    /\ arrayIncludes(last.log, "copy") =>
         /\ PreBackUpName \in DOMAIN backups.files
         /\ backups.files[PreBackUpName] = last.pre.bundle.data
    /\ ~last.pre.bundle.exists => last.threw
    /\ arrayIncludes(last.log, "copy throws") => last.threw
    /\ last.threw => bundleFile = last.pre.bundle /\ ~arrayIncludes(last.log, "write")
    /\ ~last.threw => arrayIncludes(last.log, "write")

\* C1 witness: a call that created the backups folder, copied the bundle file
\* and then overwrote it with different contents.
C1_Witness ==
  /\ last.op = "loader"
  /\ last.log = <<"mkdir", "copy", "write">>
  /\ bundleFile # last.pre.bundle

\* C2: once createScriptLoaderBundle has overwritten the bundle file, the
\* contents the file had before the first overwrite are in some file of the
\* backups folder, whatever calls follow.
C2_NoDataLoss ==
  original.known => \E f \in DOMAIN backups.files : backups.files[f] = original.data

\* C3: a successful createScriptLoaderBundle adds exactly one file to the
\* backups folder, named '{basename} - {yyyy-MM-dd_HH.mm.ss}.bak' and holding the
\* previous contents of the bundle file, and the bundle file then decodes to
\* exactly one entry, of the loader section.
C3_ExactlyOneNewBackup ==
  (last.op = "loader" /\ ~last.threw) =>
    /\ DOMAIN backups.files \ DOMAIN last.pre.backups.files = {PreBackUpName}
    /\ backups.files[PreBackUpName] = last.pre.bundle.data
    /\ LET now == NowRead
       IN  now[1] /\ Len(now[2]) = 1 /\ isLoaderScript(now[2][1][1])

\* C4 as claimed: every operation that rewrites an existing bundle file,
\* createBundleFile as well as createScriptLoaderBundle, first copies it to a
\* timestamped backup.
C4_EveryRewriteBackedUp ==
  (last.op \in {"loader", "build"} /\ ~last.threw /\ last.pre.bundle.exists) =>
    /\ arrayIncludes(last.log, "copy")
    /\ PreBackUpName \in DOMAIN backups.files
    /\ backups.files[PreBackUpName] = last.pre.bundle.data

\* C4 as amended: createScriptLoaderBundle always copies the bundle file to a
\* timestamped backup before it rewrites it, whether the backups folder exists
\* or not; createBundleFile rewrites its destination without any backup copy.
C4_LoaderRewriteBackedUp ==
  /\ (last.op = "loader" /\ ~last.threw) =>
       /\ arrayIncludes(last.log, "copy")
       /\ backups.exists
       /\ PreBackUpName \in DOMAIN backups.files
       /\ backups.files[PreBackUpName] = last.pre.bundle.data
  /\ last.op = "build" =>
       /\ backups = last.pre.backups
       /\ ~arrayIncludes(last.log, "copy")

\* C4 witness: after the loader bundle was written over the bundle file,
\* createBundleFile overwrote the existing file with different contents.
C4_Witness ==
  /\ last.op = "build" /\ ~last.threw
  /\ original.known
  /\ last.pre.bundle.exists
  /\ bundleFile # last.pre.bundle

\* The sections of a decoded bundle, as a list.
SectionsOf(bundleArray) == [i \in 1..Len(bundleArray) |-> bundleArray[i][1]]

\* C5: generateScriptSection(existing) returns a value of [0, SECTION_MAX_VAL)
\* that is not in existing and is not the loader section (existing: the
\* sections of the bundle file), and the sections of a bundle written by
\* createBundleFile are pairwise distinct and none is the loader section.
C5_SectionsUnique ==
  LET now == NowRead
      existing == SectionsOf(now[2])
  IN  /\ \A section \in generateScriptSection(existing) :
           /\ 0 <= section /\ section < SECTION_MAX_VAL
           /\ ~arrayIncludes(existing, section)
           /\ section # LOADER_SCRIPT_SECTION
      /\ (last.op = "build" /\ ~last.threw) =>
           /\ now[1]
           /\ \A i, j \in 1..Len(existing) : i # j => existing[i] # existing[j]
           /\ \A i \in 1..Len(existing) :
                /\ 0 <= existing[i] /\ existing[i] < SECTION_MAX_VAL
                /\ existing[i] # LOADER_SCRIPT_SECTION

\* C5 witness: createBundleFile wrote a bundle of several entries.
C5_Witness ==
  /\ last.op = "build" /\ ~last.threw
  /\ Len(NowRead[2]) >= 2

\* Indexes (from 1) of the entries of the decoded bundle that are not the loader.
NonLoader(bundleArray) == {i \in 1..Len(bundleArray) : bundleArray[i][1] # LOADER_SCRIPT_SECTION}

\* C6: extractScripts into an empty or absent scripts folder writes exactly one
\* file per entry that is not the loader, under pairwise distinct names, and no
\* file for a loader entry, wherever the loader entry is in the bundle.
C6_ExtractExcludesLoader ==
  (last.op = "extract" /\ ~last.threw /\ DOMAIN last.pre.scripts.nodes = {}) =>
    LET bundle == PreRead[2]
        written == NonLoader(bundle)
    IN  /\ Len(last.log) = Cardinality(written)
        /\ \A i, j \in 1..Len(last.log) : i # j => last.log[i] # last.log[j]
        /\ Cardinality(DOMAIN scripts.nodes) = Cardinality(written)
        /\ \A i \in 1..Len(bundle) :
             <<formatScriptName(bundle[i][2], i - 1)>> \in DOMAIN scripts.nodes
               <=> i \in written

\* C6 witness: a bundle of three entries with the loader in the middle was
\* extracted into a scripts folder that did not exist.
C6_Witness ==
  /\ last.op = "extract" /\ ~last.threw
  /\ ~last.pre.scripts.exists
  /\ Len(PreRead[2]) = 3
  /\ NonLoader(PreRead[2]) = {1, 3}
  /\ Cardinality(DOMAIN scripts.nodes) = 2

\* C7: checkExtractedScripts returns SCRIPTS_NOT_EXTRACTED exactly when the
\* decoded bundle has an entry whose section is not the loader section, and
\* SCRIPTS_EXTRACTED otherwise (an empty bundle included); it throws only when
\* the bundle file cannot be decoded.
C7_CheckExtractable ==
  last.op = "check" =>
    LET pre == PreRead
    IN  /\ last.threw <=> ~pre[1]
        /\ ~last.threw =>
             /\ last.code = SCRIPTS_NOT_EXTRACTED <=> NonLoader(pre[2]) # {}
             /\ last.code = SCRIPTS_EXTRACTED <=> NonLoader(pre[2]) = {}

\* C7 witness: the check of a bundle that holds the loader and another entry.
C7_Witness ==
  /\ last.op = "check" /\ ~last.threw
  /\ Len(PreRead[2]) >= 2
  /\ NonLoader(PreRead[2]) # {}
  /\ NonLoader(PreRead[2]) # 1..Len(PreRead[2])
  /\ last.code = SCRIPTS_NOT_EXTRACTED

\* The bundle file held the loader entry and nothing else.
PreOnlyLoader ==
  LET pre == PreRead
  IN  pre[1] /\ Len(pre[2]) = 1 /\ isLoaderScript(pre[2][1][1])

\* C8: for a bundle whose only entry is the loader, checkExtractedScripts
\* returns SCRIPTS_EXTRACTED, and extractScripts returns SCRIPTS_NOT_EXTRACTED
\* (nothing to extract), creates neither the scripts folder nor a file and
\* leaves the bundle file as it was.
C8_EmptyExtraction ==
  (last.op \in {"check", "extract"} /\ PreOnlyLoader) =>
    /\ last.op = "check" => ~last.threw /\ last.code = SCRIPTS_EXTRACTED
    /\ last.op = "extract" =>
         /\ ~last.threw /\ last.code = SCRIPTS_NOT_EXTRACTED
         /\ last.log = <<>>
         /\ scripts = last.pre.scripts
         /\ bundleFile = last.pre.bundle
         /\ backups = last.pre.backups

\* C8 witness: extractScripts ran on a loader-only bundle while the scripts
\* folder did not exist.
C8_Witness ==
  /\ last.op = "extract"
  /\ PreOnlyLoader
  /\ ~last.pre.scripts.exists

\* C9: decoding the encoding of a bundle gives as many entries, in the same
\* order, each equal to the original in section, name and code.
C9_CodecRoundTrip ==
  codec.pc = "done" =>
    /\ codec.out[1]
    /\ Len(codec.out[2]) = Len(codec.entries)
    /\ \A i \in 1..Len(codec.entries) : codec.out[2][i] = codec.entries[i]

\* C10: deformatScriptName(formatScriptName(name, i)) is the display name with
\* its invalid characters removed and trimmed: no index, no separator, no
\* leading space and no '.rb' is left.
C10_NameRoundTrip ==
  fmt.pc = "done" => fmt.back = trim(removeInvalid(fmt.name))

\* C11: for every display name and index, formatScriptName returns a file name
\* without invalid characters that is the index padded to 4 digits, ' - ', a
\* name part that is not empty, and '.rb' at the end.
C11_NameFormat ==
  fmt.pc \in {"formatted", "done"} =>
    LET prefix == padStart(toString(fmt.index), 4, 48) \o <<32, 45, 32>>
        file == fmt.file
    IN  /\ \A i \in 1..Len(file) : file[i] \notin INVALID_CHARACTERS
        /\ Len(file) > Len(prefix) + Len(RB_EXT)
        /\ SubSeq(file, 1, Len(prefix)) = prefix
        /\ SubSeq(file, Len(file) - Len(RB_EXT) + 1, Len(file)) = RB_EXT

\* The text begins with the encoding pragma.
StartsWithPragma(text) ==
  Len(text) >= Len(ENCODING_PRAGMA) /\ SubSeq(text, 1, Len(ENCODING_PRAGMA)) = ENCODING_PRAGMA

\* The text with the pragma line before it, unless it begins with the pragma.
WithPragma(text) ==
  IF StartsWithPragma(text) THEN text ELSE ENCODING_PRAGMA \o <<10>> \o text

\* C12: in the bundle createBundleFile writes, the code of the entry of each
\* script file is the text of the file with the encoding pragma line prepended
\* when the text does not begin with it, and the text itself when it does.
C12_BuildAddsPragma ==
  (last.op = "build" /\ ~last.threw) =>
    LET nodes == last.pre.scripts.nodes
        found == rubyScripts(nodes)
        now == NowRead
    IN  /\ now[1]
        /\ Len(now[2]) = Len(found)
        /\ \A i \in 1..Len(found) :
             now[2][i][3] = WithPragma(utf8Decode(nodes[found[i]].data))

\* C13: every script file extractScripts writes begins with the line
\* '# encoding: utf-8': the code of its entry with the pragma line prepended
\* when the code does not begin with it, the code itself when it does.
C13_ExtractedBeginsWithPragma ==
  (last.op = "extract" /\ ~last.threw) =>
    LET bundle == PreRead[2]
    IN  \A i \in NonLoader(bundle) :
          LET file == <<formatScriptName(bundle[i][2], i - 1)>>
          IN  /\ file \in DOMAIN scripts.nodes
              /\ StartsWithPragma(utf8Decode(scripts.nodes[file].data))
              /\ utf8Decode(scripts.nodes[file].data) = WithPragma(bundle[i][3])

\* C14: createBundleFile throws when the scripts folder does not exist, and
\* then the destination file is neither created nor modified (nor is any other
\* file); with the folder there it does not throw.
C14_BuildMissingFolder ==
  last.op = "build" =>
    /\ last.threw <=> ~last.pre.scripts.exists
    /\ last.threw =>
         /\ bundleFile = last.pre.bundle
         /\ last.log = <<>>
         /\ scripts = last.pre.scripts
         /\ backups = last.pre.backups

\* C14 witness: createBundleFile threw for a missing scripts folder while the
\* destination file existed.
C14_Witness ==
  /\ last.op = "build" /\ last.threw
  /\ ~last.pre.scripts.exists
  /\ last.pre.bundle.exists

\* C14 witness of the other case: the destination did not exist and was not created.
C14_WitnessAbsent ==
  /\ last.op = "build" /\ last.threw
  /\ ~last.pre.bundle.exists /\ ~bundleFile.exists

\* The script files of a folder: regular files whose name ends in '.rb',
\* whatever the case of the letters.
ScriptFilesOf(nodes) ==
  {p \in DOMAIN nodes :
     /\ ~nodes[p].dir
     /\ Len(p[Len(p)]) >= Len(RB_EXT)
     /\ toLowerCase(SubSeq(p[Len(p)], Len(p[Len(p)]) - Len(RB_EXT) + 1, Len(p[Len(p)]))) = RB_EXT}

\* In a depth-first listing, path p comes before path q: p is above q, or
\* where they part the name of p is listed first.
ListedBefore(p, q) ==
  \/ Len(p) < Len(q) /\ SubSeq(q, 1, Len(p)) = p
  \/ \E k \in 1..Len(p) :
       /\ k <= Len(q)
       /\ SubSeq(p, 1, k - 1) = SubSeq(q, 1, k - 1)
       /\ p[k] # q[k]
       /\ textLess(p[k], q[k])

\* C15: createLoadOrderFile replaces the contents of the manifest by one line
\* for each script file under the scripts folder (regular file, extension
\* '.rb' in any case), its path relative to the folder, each file once, in
\* depth-first listing order; no directory and not the manifest itself is
\* listed, and no other file changes.
C15_LoadOrderManifest ==
  (last.op = "loadorder" /\ ~last.threw) =>
    LET nodes == last.pre.scripts.nodes
        files == ScriptFilesOf(nodes)
        lines == last.log
        pathOf(line) == CHOOSE p \in DOMAIN nodes : pathText(p) = line
    IN  /\ <<LOAD_ORDER_FILE_NAME>> \in DOMAIN scripts.nodes
        /\ ~scripts.nodes[<<LOAD_ORDER_FILE_NAME>>].dir
        /\ utf8Decode(scripts.nodes[<<LOAD_ORDER_FILE_NAME>>].data)
             = writeLines([i \in 1..Len(lines) |-> pathOf(lines[i])])
        /\ Len(lines) = Cardinality(files)
        /\ {lines[i] : i \in 1..Len(lines)} = {pathText(p) : p \in files}
        /\ \A i, j \in 1..Len(lines) :
             i < j => ListedBefore(pathOf(lines[i]), pathOf(lines[j]))
        /\ \A i \in 1..Len(lines) :
             /\ lines[i] # LOAD_ORDER_FILE_NAME
             /\ ~nodes[pathOf(lines[i])].dir
        /\ \A p \in DOMAIN nodes \ {<<LOAD_ORDER_FILE_NAME>>} :
             p \in DOMAIN scripts.nodes /\ scripts.nodes[p] = nodes[p]
        /\ DOMAIN scripts.nodes = DOMAIN nodes \cup {<<LOAD_ORDER_FILE_NAME>>}

\* C15 witness: a folder with a prior manifest, scripts at two depths, a
\* directory named like a script and a file that is no script got its manifest.
C15_Witness ==
  /\ last.op = "loadorder" /\ ~last.threw
  /\ DOMAIN last.pre.scripts.nodes = DOMAIN LoadOrderNodes
  /\ Len(last.log) = 4
  /\ scripts.nodes[<<LOAD_ORDER_FILE_NAME>>] # last.pre.scripts.nodes[<<LOAD_ORDER_FILE_NAME>>]

\* Some value the generator can draw is not in the list.
SomeSectionFree == \E v \in randomSections : ~arrayIncludes(gen.sections, v)

\* C16: under fair random sampling generateScriptSection returns (a value it
\* can return for its list) whenever some value of the range is not in the
\* list; when the list holds every value of the range it never returns.
C16_SectionTermination ==
  /\ (gen.pc = "draw" /\ SomeSectionFree) ~> (gen.pc = "done")
  /\ [](gen.pc = "done" => gen.section \in generateScriptSection(gen.sections))
  /\ [](~SomeSectionFree => gen.pc # "done")

\* C16 witness: the call returned after it had to draw again.
C16_Witness ==
  /\ gen.pc = "done"
  /\ gen.again
  /\ arrayIncludes(gen.sections, LOADER_SCRIPT_SECTION)

\* C16 witness of the other case: the list holds every value and the loop is
\* drawing again.
C16_WitnessFull ==
  /\ ~SomeSectionFree
  /\ gen.pc = "draw"
  /\ gen.again

\* The lines of the load order file of the run, none when the file is missing.
LinesRead ==
  IF File_file(loader.root, File_join(SCRIPTS_PATH, LOAD_ORDER_FILE_NAME))
    THEN loadOrderOf(loader.root) ELSE <<>>

\* Path q is path p or a directory above it.
Covers(q, p) ==
  \/ q = p
  \/ Len(p) > Len(q) + 1 /\ SubSeq(p, 1, Len(q) + 1) = q \o <<47>>

\* The lines that list path p, itself or through a directory.
ListingsOf(p) == {k \in 1..Len(LinesRead) : Covers(process_path(LinesRead[k]), p)}

\* The first of them.
FirstListing(p) == CHOOSE k \in ListingsOf(p) : \A m \in ListingsOf(p) : k <= m

\* A path names a script file: a file with the extension '.rb' in any case.
IsScriptFile(path) ==
  File_file(loader.root, path) /\ downcase(File_extname(path)) = RB_EXT

\* C17: in one run of the loader no script file is loaded twice, whether the
\* load order file lists its path several times or lists it and a directory
\* above it; the cache of an earlier run is cleared first, so that every listed
\* script file is loaded; and the scripts are loaded in the order of their
\* first listing.
C17_LoadedOnce ==
  loader.pc = "done" =>
    LET loaded == loader.loaded
    IN  /\ \A i, j \in 1..Len(loaded) :
             i # j => loaded[i] # loaded[j] /\ entryOf(loaded[i]) # entryOf(loaded[j])
        /\ loader.cache = loaded
        /\ \A i \in 1..Len(loaded) : IsScriptFile(loaded[i]) /\ ListingsOf(loaded[i]) # {}
        /\ \A k \in 1..Len(LinesRead) :
             IsScriptFile(process_path(LinesRead[k]))
               => arrayIncludes(loaded, process_path(LinesRead[k]))
        /\ \A i, j \in 1..Len(loaded) :
             i < j => FirstListing(loaded[i]) <= FirstListing(loaded[j])

\* C18: when a line of the load order file names a directory of the scripts
\* folder, every script file in that directory is loaded in the run.
C18_DirectoryLoaded ==
  loader.pc = "done" =>
    \A k \in 1..Len(LinesRead) :
      LET dir == process_path(LinesRead[k])
          entries == Dir_entries(loader.root, dir)
      IN  (LinesRead[k][1] # 35 /\ File_directory(loader.root, dir)) =>
            \A i \in 1..Len(entries) :
              IsScriptFile(File_join(dir, entries[i]))
                => arrayIncludes(loader.loaded, File_join(dir, entries[i]))

\* C19: a line of the load order file that begins with '#' loads no script,
\* also when the scripts folder holds a file of that very name.
C19_CommentNeverLoaded ==
  loader.pc = "done" =>
    \A k \in 1..Len(LinesRead) :
      LinesRead[k][1] = 35 => ~arrayIncludes(loader.loaded, process_path(LinesRead[k]))

\* A bundle file holds the loader entry and nothing else.
OnlyLoader(file) ==
  /\ file.exists
  /\ LET read == readBundleFile(file.data)
     IN  read[1] /\ Len(read[2]) = 1 /\ isLoaderScript(read[2][1][1])

\* What C20 says of one step.
ExtractedOnceStep ==
  /\ (ops' # ops /\ last'.op = "loader" /\ ~last'.threw) => OnlyLoader(bundleFile')
  /\ (ops' # ops /\ last'.op # "build" /\ OnlyLoader(bundleFile)) =>
       /\ OnlyLoader(bundleFile')
       /\ last'.op = "check" => ~last'.threw /\ last'.code = SCRIPTS_EXTRACTED
       /\ last'.op = "extract" =>
            /\ ~last'.threw /\ last'.code = SCRIPTS_NOT_EXTRACTED
            /\ last'.log = <<>>
            /\ scripts' = scripts

\* C20: a successful createScriptLoaderBundle leaves a bundle file that holds
\* the loader only, and while no createBundleFile replaces it, every operation
\* leaves it so, checkExtractedScripts returns SCRIPTS_EXTRACTED, and
\* extractScripts returns SCRIPTS_NOT_EXTRACTED, writes no file and leaves the
\* extracted scripts as they are.
C20_ExtractedOnce == [][ExtractedOnceStep]_vars

\* C20 witness: after extraction and the loader bundle, extractScripts ran
\* again and the extracted scripts are as they were.
C20_Witness ==
  /\ last.op = "extract" /\ ~last.threw
  /\ original.known
  /\ OnlyLoader(last.pre.bundle)
  /\ Cardinality(DOMAIN scripts.nodes) = 2
  /\ scripts = last.pre.scripts

====
